---- MODULE Spec2Model ----
(***************************************************************************)
(* NanoQuiz server (src/server.js): the session registry, the session      *)
(* state machine, the round timer and the scoring of a round.              *)
(*                                                                         *)
(* The server is single threaded: every socket handler and every timer     *)
(* callback runs to completion, so each is one action.  A state object     *)
(* created by createGameState lives on the heap (st) for as long as a      *)
(* timer closure refers to it, whether or not the registry (games) still   *)
(* holds it.  JavaScript null/undefined is the empty sequence <<>> and a   *)
(* present value v is <<v>>.                                               *)
(***************************************************************************)
EXTENDS Integers, Sequences, FiniteSets, TLC

VARIABLES
    games,      \* Map gameId -> state, as the sequence of its entries in insertion order
    st,         \* heap of state objects, in creation order
    timers,     \* pending setTimeout callbacks: [obj, idx, due]
    now,        \* Date.now()
    connected,  \* socket ids with a live connection
    out,        \* what the last handler emitted, in order
    crashed,    \* an uncaught exception ended the process
    reveals,    \* history: per state object and question index, the number of question:reveal emits
    incs,       \* history: per state object, question index and socket id, the number of score increments
    noops,      \* history: the number of endRound calls that found no Round
    rateLimitMap,  \* Map ip -> timestamps of its recent events (followed in SpecRate only)
    admissions     \* history: per ip, every event's timestamp and whether it was admitted

vars == <<games, st, timers, now, connected, out, crashed, reveals, incs, noops,
          rateLimitMap, admissions>>

----------------------------------------------------------------------------
(* Bounds of the model *)

MaxCreates == 1          \* state objects created in one behaviour
MaxTicks == 3            \* clock steps in one behaviour
TickMs == 2500           \* milliseconds the clock advances in one step
Epoch == 1               \* Date.now() when the server starts

MaxCreatesRegistry == 2  \* state objects created in one behaviour of SpecRegistry

MaxEvents == 32          \* events of one ip in one behaviour of SpecRate
MaxEventsOther == 1      \* events of the second ip in one behaviour of SpecRate
HalfWindowMs == 5000     \* a clock step of SpecRate inside the rate limit window

(* The clients.  Socket ids are interchangeable, so in Spec the session is  *)
(* created by s1 and joined by s2 and s3; every socket may send every other *)
(* event, with any gameId.  "B" is a gameId no session of Spec has.          *)
Sockets == {"s1", "s2", "s3"}
GameIds == {"A", "B"}                 \* the gameId a request may carry
NanoIds == {"A"}                      \* the codes nanoid() returns in Spec
Creators == {"s1"}                    \* the sockets that send host:createGame in Spec
Joiners == {"s2", "s3"}               \* the sockets that send player:join in Spec
CreatorsRegistry == {"s1", "s2"}      \* the same, in SpecRegistry
JoinersRegistry == {"s1"}
OptionInputs == {<<>>, <<"a">>}       \* optionId of a player:answer (<<>>: null or missing)
QuestionIdInputs == {"q1", "q2"}      \* questionId of a player:answer

(* Program constants *)
MAX_GAMES == 100
MAX_PLAYERS_PER_GAME == 100
MinTimeLimit == 5
MaxTimeLimit == 90
FallbackTimeLimit == 20
BasePoints == 500
MsPerSecond == 1000
RATE_LIMIT_WINDOW_MS == 10000
RATE_LIMIT_MAX == 30

Max(a, b) == IF a >= b THEN a ELSE b
Min(a, b) == IF a <= b THEN a ELSE b

(* Quiz payloads a host may upload.  timeLimitSeconds 0 stands for a missing  *)
(* field (falsy, so the default applies).                                   *)
Q1 == [id |-> "q1", timeLimitSeconds |-> 7, correctOptionIds |-> {"a"}]
Q2 == [id |-> "q2", timeLimitSeconds |-> 0, correctOptionIds |-> {"b"}]
Payloads ==
    { [title |-> "Quiz", defaultTimeLimitSeconds |-> 3, questions |-> <<Q1, Q2>>],
      [title |-> "Quiz", defaultTimeLimitSeconds |-> 3, questions |-> <<>>] }
PayloadRegistry == [title |-> "Quiz", defaultTimeLimitSeconds |-> 3, questions |-> <<Q2>>]

----------------------------------------------------------------------------
(* Pure helpers *)

RECURSIVE Perms(_)
Perms(s) ==
    IF Len(s) = 0 THEN {<<>>}
    ELSE UNION { { <<s[i]>> \o p :
                     p \in Perms([j \in 1..(Len(s) - 1) |-> IF j < i THEN s[j] ELSE s[j + 1]]) }
                 : i \in 1..Len(s) }

\* a shuffle that draws every position independently, so elements may repeat
shuffleWithRepeats(arr) == [1..Len(arr) -> {arr[i] : i \in 1..Len(arr)}]

\* shuffle(arr): sort by independent random keys, any permutation may result
shuffle(arr) == Perms(arr)

\* Math.max(5, Math.min(90, x))
clampTime(x) == Max(MinTimeLimit, Min(MaxTimeLimit, x))

\* x || y on numbers
OrElse(x, y) == IF x = 0 THEN y ELSE x

validateQuizPayload(payload) ==
    /\ Len(payload.questions) # 0
    /\ payload.title # ""
    /\ \A i \in 1..Len(payload.questions) :
          /\ payload.questions[i].id # ""
          /\ payload.questions[i].correctOptionIds # {}

\* the Player record of player:join (line 277)
NewPlayer == [score |-> 0, answeredAtMs |-> <<>>, selectedOptionId |-> <<>>, lastCorrect |-> FALSE]

\* the state object createGameState returns for a given nanoid() code and shuffle outcome
createGameState(hostSocketId, payload, gameId, shuffled) ==
    LET defaultTime == clampTime(OrElse(payload.defaultTimeLimitSeconds, FallbackTimeLimit))
    IN  [ id |-> gameId,
          hostSocketId |-> hostSocketId,
          questions |-> [ i \in 1..Len(shuffled) |->
                            [shuffled[i] EXCEPT !.timeLimitSeconds =
                                clampTime(OrElse(@, defaultTime))] ],
          players |-> [s \in {} |-> NewPlayer],
          started |-> FALSE,
          currentIndex |-> -1,
          round |-> << >> ]

\* the points without the clamp of the remaining time at 0
PointsUnclamped(timeLimitSeconds, endMs, answeredAtMs) ==
    LET timeLimit == timeLimitSeconds * MsPerSecond
        timeRemaining == endMs - answeredAtMs
    IN  BasePoints + (BasePoints * timeRemaining) \div timeLimit

\* the points with the elapsed time in the place of the remaining time
PointsElapsed(timeLimitSeconds, endMs, answeredAtMs) ==
    LET timeLimit == timeLimitSeconds * MsPerSecond
        timeRemaining == Max(0, endMs - answeredAtMs)
    IN  BasePoints + (BasePoints * Max(0, timeLimit - timeRemaining)) \div timeLimit

\* the points rounded to the nearest integer instead of down
PointsRounded(timeLimitSeconds, endMs, answeredAtMs) ==
    LET timeLimit == timeLimitSeconds * MsPerSecond
        timeRemaining == Max(0, endMs - answeredAtMs)
    IN  BasePoints + (2 * BasePoints * timeRemaining + timeLimit) \div (2 * timeLimit)

\* points of a correct answer (lines 128-130).  The quotient is computed in
\* integers: for every integer limit of 5..90 seconds and every integer
\* number of milliseconds remaining, Math.floor(500 + 500 * (r / L)) in
\* IEEE doubles is 500 + floor(500 r / L).
Points(timeLimitSeconds, endMs, answeredAtMs) ==
    LET timeLimit == timeLimitSeconds * MsPerSecond
        timeRemaining == Max(0, endMs - answeredAtMs)
    IN  BasePoints + (BasePoints * timeRemaining) \div timeLimit

----------------------------------------------------------------------------
(* The registry as a Map *)

gamesHas(G, gameId) == \E k \in 1..Len(G) : G[k].key = gameId
gamesGet(G, gameId) == LET k == CHOOSE k \in 1..Len(G) : G[k].key = gameId IN G[k].ref
gamesSet(G, gameId, o) ==
    IF gamesHas(G, gameId)
    THEN [k \in 1..Len(G) |-> IF G[k].key = gameId THEN [key |-> gameId, ref |-> o] ELSE G[k]]
    ELSE Append(G, [key |-> gameId, ref |-> o])
\* a delete that leaves the entry in place
gamesKeep(G, gameId) == G

gamesDelete(G, gameId) == SelectSeq(G, LAMBDA e : e.key # gameId)

Live(o) == \E k \in 1..Len(games) : games[k].ref = o

----------------------------------------------------------------------------
(* The mutable world a handler works on, and the server functions on it *)

Cur == [st |-> st, games |-> games, timers |-> timers, out |-> <<>>,
        crashed |-> crashed, reveals |-> reveals, incs |-> incs, noops |-> noops]

Apply(W) ==
    /\ st' = W.st
    /\ games' = W.games
    /\ timers' = W.timers
    /\ out' = W.out
    /\ crashed' = W.crashed
    /\ reveals' = W.reveals
    /\ incs' = W.incs
    /\ noops' = W.noops

\* io.to(room).emit(ev, payload)
emitPayload(W, ev, to, o, index, payload) ==
    [W EXCEPT !.out = Append(@, [ev |-> ev, to |-> to, obj |-> o, index |-> index,
                                 payload |-> payload])]

\* an emit whose payload holds nothing of the questions or the scores
emit(W, ev, to, o, index) == emitPayload(W, ev, to, o, index, <<>>)

\* the rows of getPublicLeaderboard; a socket id stands for the player's
\* name, and the order of the rows (by score) is not represented
getPublicLeaderboard(S) ==
    { [name |-> s, score |-> S.players[s].score, lastCorrect |-> S.players[s].lastCorrect]
      : s \in DOMAIN S.players }

\* a question payload that carries the answers along
safeQWithAnswers(q, index, total) ==
    [id |-> q.id, index |-> index, total |-> total,
     timeLimitSeconds |-> q.timeLimitSeconds, correctOptionIds |-> q.correctOptionIds]

\* the payload of question:show, built field by field from the question;
\* text, imageUrl and options are copied from fields the model does not hold
safeQ(q, index, total) ==
    [id |-> q.id, index |-> index, total |-> total,
     timeLimitSeconds |-> q.timeLimitSeconds]

\* the payload of question:reveal
revealPayload(S, q) ==
    [correctOptionIds |-> q.correctOptionIds, index |-> S.currentIndex,
     total |-> Len(S.questions), leaderboard |-> getPublicLeaderboard(S)]

clearTimeout(W, timer) ==
    [W EXCEPT !.timers = {t \in @ : ~(t.obj = timer.obj /\ t.idx = timer.idx)}]

broadcastLobby(W, o) == emit(W, "lobby:update", W.st[o].id, o, W.st[o].currentIndex)

endGame(W, o) ==
    LET leaderboard == getPublicLeaderboard(W.st[o])
        W1 == emitPayload(W, "game:over", W.st[o].id, o, W.st[o].currentIndex,
                          << [leaderboard |-> leaderboard] >>)
    IN  [W1 EXCEPT !.games = gamesDelete(@, W.st[o].id)]

startQuestion(W, o) ==
    LET idx == W.st[o].currentIndex + 1
        W1 == [W EXCEPT !.st[o].currentIndex = idx]
    IN  IF idx >= Len(W.st[o].questions)
        THEN endGame(W1, o)
        ELSE LET q == W.st[o].questions[idx + 1]
                 startMs == now
                 endMs == startMs + q.timeLimitSeconds * MsPerSecond
                 handle == [obj |-> o, idx |-> idx]
                 W2 == [W1 EXCEPT
                          !.st[o].players =
                              [s \in DOMAIN @ |->
                                 [@[s] EXCEPT !.answeredAtMs = <<>>,
                                              !.selectedOptionId = <<>>,
                                              !.lastCorrect = FALSE]],
                          !.st[o].round =
                              << [startMs |-> startMs, endMs |-> endMs, timer |-> handle,
                                  awaiting |-> DOMAIN W.st[o].players] >>,
                          !.timers = @ \cup {[obj |-> o, idx |-> idx,
                                              due |-> now + q.timeLimitSeconds * MsPerSecond]}]
             IN  emitPayload(W2, "question:show", W.st[o].id, o, idx,
                             << safeQ(q, idx, Len(W.st[o].questions)) >>)

\* endRound leaving the Round in place
keepRound(S) == S

\* state.round = null (line 145)
clearRound(S) == [S EXCEPT !.round = <<>>]

\* the scoring loop of endRound for one player
scorePlayer(p, q, endMs) ==
    LET answered == p.selectedOptionId # <<>>
        correct == answered /\ p.selectedOptionId[1] \in q.correctOptionIds
    IN  IF correct /\ p.answeredAtMs # <<>> /\ p.answeredAtMs[1] # 0
        THEN [p EXCEPT !.lastCorrect = correct,
                       !.score = @ + Points(q.timeLimitSeconds, endMs, p.answeredAtMs[1])]
        ELSE [p EXCEPT !.lastCorrect = correct]

endRound(W, o) ==
    LET S == W.st[o]
    IN  IF S.round = <<>> THEN [W EXCEPT !.noops = @ + 1]
        ELSE
        LET W0 == clearTimeout(W, S.round[1].timer)
        IN  IF S.currentIndex >= Len(S.questions)
            THEN \* q is undefined: q.correctOptionIds throws before any score changes
                 \* or anything is emitted; the exception is uncaught
                 [W0 EXCEPT !.crashed = TRUE]
            ELSE
            LET q == S.questions[S.currentIndex + 1]
                endMs == S.round[1].endMs
                scored == [s \in DOMAIN S.players |-> scorePlayer(S.players[s], q, endMs)]
                W1 == [W0 EXCEPT
                         !.st[o].players = scored,
                         !.incs[o][S.currentIndex] =
                             [s \in Sockets |->
                                IF s \in DOMAIN S.players /\ scored[s].score # S.players[s].score
                                THEN @[s] + 1 ELSE @[s]],
                         !.reveals[o][S.currentIndex] = @ + 1]
                W2 == emitPayload(W1, "question:reveal", S.id, o, S.currentIndex,
                                  << revealPayload(W1.st[o], q) >>)
                W3 == [W2 EXCEPT !.st[o] = clearRound(@)]
            IN  emit(W3, "host:canAdvance", S.hostSocketId, o, S.currentIndex)

maybeEndEarly(W, o) ==
    IF W.st[o].round = <<>> THEN W
    ELSE IF W.st[o].round[1].awaiting = {}
         THEN endRound(clearTimeout(W, W.st[o].round[1].timer), o)
         ELSE W

----------------------------------------------------------------------------
(* Initial state: the server listens and the clients' sockets are connected; *)
(* no game exists.  A socket id is never reused after its disconnect.       *)

Init ==
    /\ games = <<>>
    /\ st = <<>>
    /\ timers = {}
    /\ now = Epoch
    /\ connected = Sockets
    /\ out = <<>>
    /\ crashed = FALSE
    /\ reveals = <<>>
    /\ incs = <<>>
    /\ noops = 0
    /\ rateLimitMap = <<>>
    /\ admissions = <<>>

----------------------------------------------------------------------------
(* Handlers.  Each is the body wrapRateLimit runs for an admitted event. *)

\* what host:createGame does to the world
\* a ceiling check that lets one more in
moreThanMaxGames(n) == n > MAX_GAMES

\* games.size >= MAX_GAMES (line 226)
tooManyGames(n) == n >= MAX_GAMES

hostCreateGame(W, s, payload, gameId, shuffled) ==
    IF tooManyGames(Len(W.games))
    THEN emit(W, "ack:tooMany", s, 0, -1)
    ELSE IF ~validateQuizPayload(payload)
    THEN emit(W, "ack:invalid", s, 0, -1)
    ELSE LET o == Len(W.st) + 1
             state == createGameState(s, payload, gameId, shuffled)
             W1 == [W EXCEPT
                      !.st = Append(@, state),
                      !.reveals = Append(@, [i \in 0..(Len(state.questions) - 1) |-> 0]),
                      !.incs = Append(@, [i \in 0..(Len(state.questions) - 1) |->
                                             [x \in Sockets |-> 0]]),
                      !.games = gamesSet(@, state.id, o)]
             W2 == emit(W1, "ack:ok", s, o, -1)
         IN  broadcastLobby(W2, o)

HostCreateGame(s, payload, gameId, shuffled) ==
    /\ ~crashed
    /\ s \in connected
    /\ Apply(hostCreateGame(Cur, s, payload, gameId, shuffled))
    /\ UNCHANGED <<now, connected, rateLimitMap, admissions>>

\* a host check that lets every socket pass
nobodyIsRefused(S, s) == FALSE

\* state.hostSocketId !== socket.id (lines 249, 258)
notHost(S, s) == S.hostSocketId # s

\* host:startGame that sets started without advancing to the first question
hostStartGameNoAdvance(W, s, gameId) ==
    IF ~gamesHas(W.games, gameId) THEN W
    ELSE LET o == gamesGet(W.games, gameId)
         IN  IF W.st[o].hostSocketId # s \/ W.st[o].started THEN W
             ELSE LET W1 == [W EXCEPT !.st[o].started = TRUE]
                  IN  emit(W1, "game:started", W.st[o].id, o, W.st[o].currentIndex)

hostStartGame(W, s, gameId) ==
    IF ~gamesHas(W.games, gameId) THEN W
    ELSE LET o == gamesGet(W.games, gameId)
         IN  IF notHost(W.st[o], s) \/ W.st[o].started THEN W
             ELSE LET W1 == [W EXCEPT !.st[o].started = TRUE]
                      W2 == emit(W1, "game:started", W.st[o].id, o, W.st[o].currentIndex)
                  IN  startQuestion(W2, o)

HostStartGame(s, gameId) ==
    /\ ~crashed
    /\ s \in connected
    /\ Apply(hostStartGame(Cur, s, gameId))
    /\ UNCHANGED <<now, connected, rateLimitMap, admissions>>

hostNext(W, s, gameId) ==
    IF ~gamesHas(W.games, gameId) THEN W
    ELSE LET o == gamesGet(W.games, gameId)
         IN  IF notHost(W.st[o], s) THEN W
             ELSE startQuestion(W, o)

HostNext(s, gameId) ==
    /\ ~crashed
    /\ s \in connected
    /\ Apply(hostNext(Cur, s, gameId))
    /\ UNCHANGED <<now, connected, rateLimitMap, admissions>>

\* a ceiling check that lets one more in
moreThanMaxPlayers(n) == n > MAX_PLAYERS_PER_GAME

\* state.players.size >= MAX_PLAYERS_PER_GAME (line 270)
gameIsFull(n) == n >= MAX_PLAYERS_PER_GAME

playerJoin(W, s, gameId) ==
    IF ~gamesHas(W.games, gameId) THEN emit(W, "ack:error", s, 0, -1)
    ELSE LET o == gamesGet(W.games, gameId)
         IN  IF W.st[o].started THEN emit(W, "ack:error", s, o, -1)
             ELSE IF gameIsFull(Cardinality(DOMAIN W.st[o].players))
             THEN emit(W, "ack:full", s, o, -1)
             ELSE LET W1 == [W EXCEPT !.st[o].players =
                                [x \in DOMAIN @ \cup {s} |-> IF x = s THEN NewPlayer ELSE @[x]]]
                      W2 == emit(W1, "ack:ok", s, o, -1)
                  IN  broadcastLobby(W2, o)

PlayerJoin(s, gameId) ==
    /\ ~crashed
    /\ s \in connected
    /\ Apply(playerJoin(Cur, s, gameId))
    /\ UNCHANGED <<now, connected, rateLimitMap, admissions>>

playerAnswer(W, s, gameId, questionId, optionId) ==
    IF ~gamesHas(W.games, gameId) THEN W
    ELSE LET o == gamesGet(W.games, gameId)
             S == W.st[o]
         IN  IF S.round = <<>> THEN W
             ELSE IF s \notin DOMAIN S.players THEN W
             ELSE IF S.currentIndex >= Len(S.questions) THEN W
             ELSE IF S.questions[S.currentIndex + 1].id # questionId THEN W
             ELSE IF S.players[s].selectedOptionId # <<>> THEN W
             ELSE LET W1 == [W EXCEPT
                               !.st[o].players[s].selectedOptionId = optionId,
                               !.st[o].players[s].answeredAtMs = <<now>>,
                               !.st[o].round[1].awaiting = @ \ {s}]
                      W2 == emit(W1, "player:locked", s, o, S.currentIndex)
                  IN  maybeEndEarly(W2, o)

PlayerAnswer(s, gameId, questionId, optionId) ==
    /\ ~crashed
    /\ s \in connected
    /\ Apply(playerAnswer(Cur, s, gameId, questionId, optionId))
    /\ UNCHANGED <<now, connected, rateLimitMap, admissions>>

\* the loop of the disconnect handler over the entries k.. of the registry
RECURSIVE disconnectFrom(_, _, _)
disconnectFrom(W, s, k) ==
    IF k > Len(W.games) THEN W
    ELSE LET o == W.games[k].ref
             S == W.st[o]
         IN  IF S.hostSocketId = s
             THEN LET W1 == emit(W, "game:cancelled", S.id, o, S.currentIndex)
                  IN  [W1 EXCEPT !.games = gamesDelete(@, W.games[k].key)]
             ELSE IF s \in DOMAIN S.players
             THEN LET W1 == [W EXCEPT !.st[o].players = [x \in DOMAIN @ \ {s} |-> @[x]]]
                      W2 == broadcastLobby(W1, o)
                  IN  IF S.round # <<>> /\ DOMAIN W2.st[o].players = {}
                      THEN endRound(clearTimeout(W2, S.round[1].timer), o)
                      ELSE W2
             ELSE disconnectFrom(W, s, k + 1)

Disconnect(s) ==
    /\ ~crashed
    /\ s \in connected
    /\ Apply(disconnectFrom(Cur, s, 1))
    /\ connected' = connected \ {s}
    /\ UNCHANGED <<now, rateLimitMap, admissions>>

\* a pending timer whose delay has passed runs its callback, endRound(state)
TimerFire(t) ==
    /\ ~crashed
    /\ t \in timers
    /\ now >= t.due
    /\ Apply(endRound([Cur EXCEPT !.timers = @ \ {t}], t.obj))
    /\ UNCHANGED <<now, connected, rateLimitMap, admissions>>

\* time passes
Tick(ms) ==
    /\ ~crashed
    /\ now' = now + ms
    /\ out' = <<>>
    /\ UNCHANGED <<games, st, timers, connected, crashed, reveals, incs, noops,
                   rateLimitMap, admissions>>

(* One session of two questions.  The clock is read only while a Round      *)
(* exists, and a Round has a pending timer, so time passes only while a     *)
(* timer is pending.                                                        *)
Next ==
    \/ /\ Len(st) < MaxCreates
       /\ \E s \in Creators, payload \in Payloads, gameId \in NanoIds :
             \E shuffled \in shuffle(payload.questions) :
                HostCreateGame(s, payload, gameId, shuffled)
    \/ \E s \in Sockets, gameId \in GameIds : HostStartGame(s, gameId)
    \/ \E s \in Sockets, gameId \in GameIds : HostNext(s, gameId)
    \/ \E s \in Joiners, gameId \in GameIds : PlayerJoin(s, gameId)
    \/ \E s \in Sockets, gameId \in GameIds, questionId \in QuestionIdInputs,
          optionId \in OptionInputs : PlayerAnswer(s, gameId, questionId, optionId)
    \/ \E s \in Sockets : Disconnect(s)
    \/ \E t \in timers : TimerFire(t)
    \/ /\ now < Epoch + MaxTicks * TickMs
       /\ timers # {}
       /\ Tick(TickMs)

Spec == Init /\ [][Next]_vars

(* The registry with several sessions: sockets create sessions and          *)
(* disconnect, ids may collide; one-question quizzes, one joining socket    *)
(* and one clock step of the length of a round keep it small.               *)
NextRegistry ==
    \/ /\ Len(st) < MaxCreatesRegistry
       /\ \E s \in CreatorsRegistry, gameId \in GameIds :
             HostCreateGame(s, PayloadRegistry, gameId, PayloadRegistry.questions)
    \/ \E s \in Sockets, gameId \in GameIds : HostStartGame(s, gameId)
    \/ \E s \in Sockets, gameId \in GameIds : HostNext(s, gameId)
    \/ \E s \in JoinersRegistry, gameId \in GameIds : PlayerJoin(s, gameId)
    \/ \E s \in JoinersRegistry, gameId \in GameIds : PlayerAnswer(s, gameId, "q2", <<"b">>)
    \/ \E s \in Sockets : Disconnect(s)
    \/ \E t \in timers : TimerFire(t)
    \/ /\ now < Epoch + MinTimeLimit * MsPerSecond
       /\ timers # {}
       /\ Tick(MinTimeLimit * MsPerSecond)

SpecRegistry == Init /\ [][NextRegistry]_vars

(* Scoring of one round, for every time limit the clamp lets through.  The  *)
(* initial states are those in which host s1 has created a one-question     *)
(* session with a limit of 5..90 seconds, s2 and s3 have joined and the     *)
(* host has started it.  The clock then steps through the instants of       *)
(* interest of the round and the two players answer (rightly or wrongly) or *)
(* stay silent until endRound runs.                                         *)
LimitInputs == MinTimeLimit..MaxTimeLimit

PayloadScore(limit) ==
    [title |-> "Quiz", defaultTimeLimitSeconds |-> 0,
     questions |-> <<[Q1 EXCEPT !.timeLimitSeconds = limit]>>]

\* the offsets from the start of a round of limit seconds at which the clock is read
Offsets(limit) ==
    {0, 1, limit * 250, limit * 500, limit * MsPerSecond - 1, limit * MsPerSecond,
     limit * MsPerSecond + 1}

EmptyWorld == [st |-> <<>>, games |-> <<>>, timers |-> {}, out |-> <<>>,
               crashed |-> FALSE, reveals |-> <<>>, incs |-> <<>>, noops |-> 0]

RoundStarted(limit) ==
    LET W1 == hostCreateGame(EmptyWorld, "s1", PayloadScore(limit), "A",
                             PayloadScore(limit).questions)
        W2 == playerJoin(W1, "s2", "A")
        W3 == playerJoin(W2, "s3", "A")
    IN  hostStartGame([W3 EXCEPT !.out = <<>>], "s1", "A")

InitScore ==
    /\ now = Epoch
    /\ connected = Sockets
    /\ \E limit \in LimitInputs :
          /\ st = RoundStarted(limit).st
          /\ games = RoundStarted(limit).games
          /\ timers = RoundStarted(limit).timers
          /\ out = RoundStarted(limit).out
          /\ crashed = RoundStarted(limit).crashed
          /\ reveals = RoundStarted(limit).reveals
          /\ incs = RoundStarted(limit).incs
          /\ noops = RoundStarted(limit).noops
    /\ rateLimitMap = <<>>
    /\ admissions = <<>>

NextScore ==
    \/ \E s \in Joiners, optionId \in {<<"a">>, <<"b">>} :
          PlayerAnswer(s, "A", "q1", optionId)
    \/ \E t \in timers : TimerFire(t)
    \/ /\ timers # {}
       /\ \E d \in Offsets(st[1].questions[1].timeLimitSeconds) :
             /\ Epoch + d > now
             /\ Tick(Epoch + d - now)

SpecScore == InitScore /\ [][NextScore]_vars

----------------------------------------------------------------------------
(* The rate limiter.  Every socket event except disconnect passes through   *)
(* wrapRateLimit; the actions of Spec, SpecRegistry and SpecScore are the   *)
(* handlers of admitted events, and SpecRate follows the admission itself.  *)

\* socket.handshake.address: s1 and s2 connect from one address, s3 from another
address(s) == IF s = "s3" THEN "ip2" ELSE "ip1"

\* arr[0] < now - RATE_LIMIT_WINDOW_MS, with a window that is closed at its old end
staleInclusive(ts, t) == ts <= t - RATE_LIMIT_WINDOW_MS

\* the same for a limiter that never forgets
neverStale(ts, t) == FALSE

\* arr[0] < now - RATE_LIMIT_WINDOW_MS (line 168)
stale(ts, t) == ts < t - RATE_LIMIT_WINDOW_MS

\* while (arr.length && arr[0] < now - RATE_LIMIT_WINDOW_MS) arr.shift()
RECURSIVE shiftStale(_, _)
shiftStale(arr, t) ==
    IF arr # <<>> /\ stale(Head(arr), t) THEN shiftStale(Tail(arr), t) ELSE arr

rateLimit(M, ip, t) ==
    LET M1 == IF ip \in DOMAIN M THEN M ELSE M @@ (ip :> <<>>)
        arr == Append(shiftStale(M1[ip], t), t)
    IN  [map |-> [M1 EXCEPT ![ip] = arr], ok |-> ~(Len(arr) > RATE_LIMIT_MAX)]

\* the event of socket s whose handler would leave the world handled; hasAck: the
\* last argument of the event is a function
wrapRateLimit(s, hasAck, handled) ==
    LET ip == address(s)
        R == rateLimit(rateLimitMap, ip, now)
        before == IF ip \in DOMAIN admissions THEN admissions[ip] ELSE <<>>
    IN  /\ rateLimitMap' = R.map
        /\ admissions' = [i \in DOMAIN admissions \cup {ip} |->
                            IF i = ip THEN Append(before, [at |-> now, ok |-> R.ok])
                            ELSE admissions[i]]
        /\ IF R.ok THEN Apply(handled)
           ELSE IF hasAck THEN Apply(emit(Cur, "ack:rateLimit", s, 0, -1))
           ELSE Apply(Cur)

OnHostCreateGame(s, payload, gameId, shuffled) ==
    /\ ~crashed
    /\ s \in connected
    /\ wrapRateLimit(s, TRUE, hostCreateGame(Cur, s, payload, gameId, shuffled))
    /\ UNCHANGED <<now, connected>>

OnHostStartGame(s, gameId) ==
    /\ ~crashed
    /\ s \in connected
    /\ wrapRateLimit(s, FALSE, hostStartGame(Cur, s, gameId))
    /\ UNCHANGED <<now, connected>>

OnHostNext(s, gameId) ==
    /\ ~crashed
    /\ s \in connected
    /\ wrapRateLimit(s, FALSE, hostNext(Cur, s, gameId))
    /\ UNCHANGED <<now, connected>>

OnPlayerJoin(s, gameId) ==
    /\ ~crashed
    /\ s \in connected
    /\ wrapRateLimit(s, TRUE, playerJoin(Cur, s, gameId))
    /\ UNCHANGED <<now, connected>>

EventsOf(ip) == IF ip \in DOMAIN admissions THEN Len(admissions[ip]) ELSE 0

NextRate ==
    \/ /\ EventsOf("ip1") < MaxEvents
       /\ \/ /\ Len(st) < MaxCreates
             /\ \E shuffled \in shuffle(PayloadRegistry.questions) :
                   OnHostCreateGame("s1", PayloadRegistry, "A", shuffled)
          \/ OnHostNext("s1", "A")
          \/ OnPlayerJoin("s2", "A")
    \/ /\ EventsOf("ip1") >= RATE_LIMIT_MAX      \* the second address speaks up late
       /\ EventsOf("ip2") < MaxEventsOther
       /\ OnPlayerJoin("s3", "A")
    \/ \E t \in timers : TimerFire(t)
    \/ /\ now = Epoch
       /\ \E ms \in {HalfWindowMs, RATE_LIMIT_WINDOW_MS + 1} : Tick(ms)
    \/ /\ now = Epoch + HalfWindowMs
       /\ Tick(RATE_LIMIT_WINDOW_MS - HalfWindowMs)

SpecRate == Init /\ [][NextRate]_vars

(* Host commands from every socket, each event recorded with its address:   *)
(* s1 creates the session, s2 (same address) joins and answers, s3 (the     *)
(* other address) only ever sends host commands.                            *)
MaxEventsHost == 4       \* events of one ip in one behaviour of SpecHost

NextHost ==
    \/ /\ Len(st) < MaxCreates
       /\ EventsOf("ip1") < MaxEventsHost
       /\ \E payload \in Payloads : \E shuffled \in shuffle(payload.questions) :
             OnHostCreateGame("s1", payload, "A", shuffled)
    \/ /\ EventsOf("ip1") < MaxEventsHost
       /\ OnPlayerJoin("s2", "A")
    \/ \E s \in Sockets, gameId \in GameIds :
          /\ EventsOf(address(s)) < (IF s = "s3" THEN MaxEventsOther ELSE MaxEventsHost)
          /\ OnHostStartGame(s, gameId) \/ OnHostNext(s, gameId)
    \/ \E optionId \in OptionInputs, questionId \in QuestionIdInputs :
          PlayerAnswer("s2", "A", questionId, optionId)
    \/ \E t \in timers : TimerFire(t)
    \/ /\ now < Epoch + MaxTicks * TickMs
       /\ timers # {}
       /\ Tick(TickMs)

SpecHost == Init /\ [][NextHost]_vars

(* One session with fair timers.  The event loop runs the callback of a     *)
(* timer once its delay has passed, and the clock reaches every pending     *)
(* deadline: both are weakly fair.  The clients are free to send or not.    *)

\* the clock reaches the deadline of a pending timer
TickToDue == \E t \in timers : t.due > now /\ Tick(t.due - now)

NextLive ==
    \/ /\ Len(st) < MaxCreates
       /\ \E payload \in Payloads : \E shuffled \in shuffle(payload.questions) :
             HostCreateGame("s1", payload, "A", shuffled)
    \/ HostStartGame("s1", "A")
    \/ HostNext("s1", "A")
    \/ PlayerJoin("s2", "A")
    \/ \E questionId \in QuestionIdInputs, optionId \in OptionInputs :
          PlayerAnswer("s2", "A", questionId, optionId)
    \/ \E s \in {"s1", "s2"} : Disconnect(s)
    \/ \E t \in timers : TimerFire(t)
    \/ TickToDue

SpecLive ==
    /\ Init
    /\ [][NextLive]_vars
    /\ WF_vars(\E t \in timers : TimerFire(t))
    /\ WF_vars(TickToDue)

----------------------------------------------------------------------------
(* A lobby at the player ceiling: 99 sockets have joined session A before   *)
(* the behaviour starts, and s2, s3 and two of the 99 act in it.            *)

CrowdSize == MAX_PLAYERS_PER_GAME - 1
Digit == <<"0", "1", "2", "3", "4", "5", "6", "7", "8", "9">>
SocketIdOf(n) == "c" \o Digit[(n \div 10) + 1] \o Digit[(n % 10) + 1]
Crowd == {SocketIdOf(n) : n \in 1..CrowdSize}

\* the lobby of session A after the 99 sockets of the crowd have joined it
CrowdedLobby ==
    LET W1 == hostCreateGame(EmptyWorld, "s1", PayloadRegistry, "A", PayloadRegistry.questions)
    IN  [W1 EXCEPT !.st[1].players = [x \in Crowd |-> NewPlayer], !.out = <<>>]

InitCapacity ==
    /\ now = Epoch
    /\ connected = Sockets \cup Crowd
    /\ st = CrowdedLobby.st
    /\ games = CrowdedLobby.games
    /\ timers = CrowdedLobby.timers
    /\ out = CrowdedLobby.out
    /\ crashed = CrowdedLobby.crashed
    /\ reveals = CrowdedLobby.reveals
    /\ incs = CrowdedLobby.incs
    /\ noops = CrowdedLobby.noops
    /\ rateLimitMap = <<>>
    /\ admissions = <<>>

NextCapacity ==
    \/ \E s \in {"s2", "s3", SocketIdOf(1)}, gameId \in GameIds : PlayerJoin(s, gameId)
    \/ \E s \in {"s2", SocketIdOf(2)} : Disconnect(s)
    \/ HostStartGame("s1", "A")
    \/ HostNext("s1", "A")
    \/ PlayerAnswer("s2", "A", "q2", <<"b">>)
    \/ \E t \in timers : TimerFire(t)
    \/ /\ now = Epoch
       /\ timers # {}
       /\ Tick(MinTimeLimit * MsPerSecond)

SpecCapacity == InitCapacity /\ [][NextCapacity]_vars

(* A registry at the session ceiling: 99 lobbies exist before the behaviour *)
(* starts, the n-th created by the n-th socket of the crowd.                *)

CrowdGames == MAX_GAMES - 1
MaxCreatesGames == 2     \* state objects created in one behaviour of SpecGames
GameIdOf(n) == "G" \o Digit[(n \div 10) + 1] \o Digit[(n % 10) + 1]

\* the state objects and the registry after the 99 host:createGame events
CrowdedRegistry ==
    [EmptyWorld EXCEPT
       !.st = [n \in 1..CrowdGames |->
                 createGameState(SocketIdOf(n), PayloadRegistry, GameIdOf(n),
                                 PayloadRegistry.questions)],
       !.games = [n \in 1..CrowdGames |-> [key |-> GameIdOf(n), ref |-> n]],
       !.reveals = [n \in 1..CrowdGames |-> [i \in 0..0 |-> 0]],
       !.incs = [n \in 1..CrowdGames |-> [i \in 0..0 |-> [x \in Sockets |-> 0]]]]

InitGames ==
    /\ now = Epoch
    /\ connected = Sockets \cup Crowd
    /\ st = CrowdedRegistry.st
    /\ games = CrowdedRegistry.games
    /\ timers = CrowdedRegistry.timers
    /\ out = CrowdedRegistry.out
    /\ crashed = CrowdedRegistry.crashed
    /\ reveals = CrowdedRegistry.reveals
    /\ incs = CrowdedRegistry.incs
    /\ noops = CrowdedRegistry.noops
    /\ rateLimitMap = <<>>
    /\ admissions = <<>>

NextGames ==
    \/ /\ Len(st) < CrowdGames + MaxCreatesGames
       /\ \E s \in CreatorsRegistry, payload \in Payloads, gameId \in GameIds :
             \E shuffled \in shuffle(payload.questions) :
                HostCreateGame(s, payload, gameId, shuffled)
    \/ \E s \in {SocketIdOf(1), SocketIdOf(3)} : Disconnect(s)
    \/ \E gameId \in {"A", GameIdOf(2)} : PlayerJoin("s3", gameId)

SpecGames == InitGames /\ [][NextGames]_vars

----------------------------------------------------------------------------
(* Vocabulary of the properties *)

Objs == 1..Len(st)
HasRound(o) == st[o].round # <<>>
Emitted(ev, o) == \E k \in 1..Len(out) : out[k].ev = ev /\ out[k].obj = o
EmittedNext(ev, o) == \E k \in 1..Len(out') : out'[k].ev = ev /\ out'[k].obj = o
Accepted(o, s) == s \in DOMAIN st[o].players /\ st[o].players[s].answeredAtMs # <<>>
\* the deadline of the first round of session o, which starts at Epoch
FirstDeadline(o) == Epoch + st[o].questions[1].timeLimitSeconds * MsPerSecond

----------------------------------------------------------------------------
(* C1: for every session and question index i, at most one reveal carries   *)
(* index i and each player's score is incremented at most once for round i, *)
(* whatever the interleaving of timers, answers, disconnects and advances;  *)
(* an endRound call that finds the Round already cleared changes no session *)
(* state and emits nothing.                                                 *)
C1_EndRoundOnce ==
    [][ /\ \A o \in 1..Len(st') : \A i \in DOMAIN reveals'[o] :
             /\ reveals'[o][i] <= 1
             /\ \A s \in Sockets : incs'[o][i][s] <= 1
        /\ \A t \in timers :
             (TimerFire(t) /\ ~HasRound(t.obj)) =>
                 /\ UNCHANGED <<st, games, reveals, incs, crashed>>
                 /\ out' = <<>> ]_vars

\* a round was revealed and scored once, and afterwards a timer left over from a
\* skipped round called endRound on the cleared Round
C1_Witness ==
    \E o \in Objs :
       /\ noops >= 1
       /\ st[o].currentIndex = 1 /\ ~HasRound(o)
       /\ reveals[o][1] = 1
       /\ \E s \in Sockets : incs[o][1][s] = 1

(* C2: in an answer handler of a started session after which every player   *)
(* in the Player map has an accepted answer for the active round, the round *)
(* has ended: the reveal was emitted by that handler, the Round is cleared  *)
(* and no timer of the round is pending.                                    *)
C2_AllAnsweredEndsRound ==
    \A o \in Objs :
       (/\ Live(o) /\ st[o].started
        /\ Emitted("player:locked", o)
        /\ \A s \in DOMAIN st[o].players : Accepted(o, s))
       => /\ ~HasRound(o)
          /\ Emitted("question:reveal", o)
          /\ \A t \in timers : ~(t.obj = o /\ t.idx = st[o].currentIndex)

(* C3: no reveal is emitted (and so no score changed) for a session that    *)
(* has been removed from the registry: its round timer was cancelled.       *)
C3_NoRevealAfterRemoval ==
    \A o \in Objs : Emitted("question:reveal", o) => Live(o)

(* C4: host:next received while the session has an active Round changes     *)
(* nothing (currentIndex, Round, timers, players, registry) and emits       *)
(* nothing.                                                                 *)
C4_NextDuringRoundIsNoop ==
    [][ \A s \in Sockets, g \in GameIds :
          (/\ HostNext(s, g)
           /\ gamesHas(games, g)
           /\ HasRound(gamesGet(games, g)))
          => /\ UNCHANGED <<st, games, timers>>
             /\ out' = <<>> ]_vars

C6_RoundImpliesStarted ==
    \A o \in Objs : (Live(o) /\ HasRound(o)) =>
       /\ st[o].started = TRUE
       /\ 0 <= st[o].currentIndex
       /\ st[o].currentIndex < Len(st[o].questions)

(* C8: when a player of an active Round of a started session disconnects,   *)
(* the handler removes the player from the awaiting set, and ends the round *)
(* if the awaiting set is then empty.                                       *)
C8_DisconnectLeavesAwaiting ==
    [][ \A s \in Sockets : Disconnect(s) =>
          \A o \in Objs :
             (/\ Live(o) /\ HasRound(o) /\ st[o].started
              /\ st[o].hostSocketId # s
              /\ s \in DOMAIN st[o].players)
             => IF st[o].round[1].awaiting \ {s} = {}
                THEN st'[o].round = <<>> /\ EmittedNext("question:reveal", o)
                ELSE st'[o].round # <<>> /\ s \notin st'[o].round[1].awaiting ]_vars

(* C9: once a player's answer has been accepted in a round of a started     *)
(* session, a later player:answer of that player in the same round changes  *)
(* neither the selection nor the timestamp and sends no acknowledgment.     *)
C9_SecondAnswerIgnored ==
    [][ \A s \in Sockets, g \in GameIds, qid \in QuestionIdInputs, opt \in OptionInputs :
          (/\ PlayerAnswer(s, g, qid, opt)
           /\ gamesHas(games, g)
           /\ HasRound(gamesGet(games, g))
           /\ st[gamesGet(games, g)].started
           /\ Accepted(gamesGet(games, g), s))
          => /\ UNCHANGED <<st, games, timers>>
             /\ out' = <<>> ]_vars

(* C10: whenever endRound scores a player whose accepted answer is correct, *)
(* the points added are at least 500 and at most 1000, also for an answer   *)
(* accepted after the deadline but before the timer callback ran.           *)
C10_PointsInRange ==
    [][ \A o \in Objs :
          EmittedNext("question:reveal", o) =>
             \A s \in DOMAIN st[o].players \cap DOMAIN st'[o].players :
                st'[o].players[s].lastCorrect =>
                   /\ st'[o].players[s].score - st[o].players[s].score >= BasePoints
                   /\ st'[o].players[s].score - st[o].players[s].score <= 2 * BasePoints ]_vars

\* the first round was scored with one correct answer given at its start (1000)
\* and one accepted after its deadline (500)
C10_Witness ==
    \E o \in Objs :
       /\ st[o].currentIndex = 0 /\ ~HasRound(o) /\ reveals[o][0] = 1
       /\ \E s, u \in DOMAIN st[o].players :
             /\ st[o].players[s].lastCorrect /\ st[o].players[s].answeredAtMs = <<Epoch>>
             /\ st[o].players[s].score = 2 * BasePoints
             /\ st[o].players[u].lastCorrect /\ st[o].players[u].answeredAtMs # <<>>
             /\ st[o].players[u].answeredAtMs[1] > FirstDeadline(o)
             /\ st[o].players[u].score = BasePoints

(* C7: after a socket disconnects no live session has it as its host, also  *)
(* when it hosted several sessions or was a player of another session.      *)
C7_NoSessionOfGoneHost ==
    \A o \in Objs : Live(o) => st[o].hostSocketId \in connected

----------------------------------------------------------------------------
(* Scoring (SpecScore: one round, every limit of 5..90 seconds) *)

\* the round of session o has been revealed and its players' scores are its points
Scored(o) == st[o].currentIndex = 0 /\ ~HasRound(o) /\ reveals[o][0] = 1
CorrectAt(o, s) ==
    /\ s \in DOMAIN st[o].players
    /\ st[o].players[s].lastCorrect
    /\ st[o].players[s].answeredAtMs # <<>>

(* C11 as stated: of two correct answers to the same round, the one with    *)
(* the earlier timestamp (integer milliseconds) gets strictly more points.  *)
C11_StrictlyDecreasing ==
    \A o \in Objs : Scored(o) =>
       \A s, u \in DOMAIN st[o].players :
          (/\ CorrectAt(o, s) /\ CorrectAt(o, u)
           /\ st[o].players[s].answeredAtMs[1] < st[o].players[u].answeredAtMs[1])
          => st[o].players[s].score > st[o].players[u].score

(* C11 amended: of two correct answers to the same round, the one with the  *)
(* earlier timestamp gets at least as many points as the later one.         *)
C11_NonIncreasing ==
    \A o \in Objs : Scored(o) =>
       \A s, u \in DOMAIN st[o].players :
          (/\ CorrectAt(o, s) /\ CorrectAt(o, u)
           /\ st[o].players[s].answeredAtMs[1] < st[o].players[u].answeredAtMs[1])
          => st[o].players[s].score >= st[o].players[u].score

\* in a round of 90 s two correct answers, at the start and at half time, got 1000 and 750
C11_Witness ==
    \E o \in Objs : Scored(o) /\
       /\ st[o].questions[1].timeLimitSeconds = MaxTimeLimit
       /\ CorrectAt(o, "s2") /\ CorrectAt(o, "s3")
       /\ st[o].players["s2"].answeredAtMs = <<Epoch>>
       /\ st[o].players["s3"].answeredAtMs = <<Epoch + 45000>>
       /\ st[o].players["s2"].score = 1000
       /\ st[o].players["s3"].score = 750

(* C12: at endRound a player's score grows by exactly                       *)
(* floor(500 + 500 * max(0, roundEnd - answerTimestamp) / timeLimitMillis)  *)
(* if the submitted option is in the question's correct set, and by exactly *)
(* 0 otherwise (no answer, or a wrong one).                                 *)
C12_ScoreIncrement ==
    [][ \A o \in Objs :
          EmittedNext("question:reveal", o) =>
             \A s \in DOMAIN st[o].players \cap DOMAIN st'[o].players :
                LET p == st'[o].players[s]
                    q == st[o].questions[st[o].currentIndex + 1]
                    limitMs == q.timeLimitSeconds * MsPerSecond
                    gain == p.score - st[o].players[s].score
                    correct == p.selectedOptionId # <<>>
                               /\ p.selectedOptionId[1] \in q.correctOptionIds
                    remaining == Max(0, st[o].round[1].endMs - p.answeredAtMs[1])
                IN  IF correct
                    THEN /\ gain >= BasePoints
                         /\ (gain - BasePoints) * limitMs <= BasePoints * remaining
                         /\ BasePoints * remaining < (gain - BasePoints + 1) * limitMs
                    ELSE gain = 0 ]_vars

\* limit 20 s: the answer with 15 s remaining got 875, the wrong answer got 0
C12_Witness ==
    \E o \in Objs : Scored(o) /\
       /\ st[o].questions[1].timeLimitSeconds = FallbackTimeLimit
       /\ st[o].players["s2"].selectedOptionId = <<"a">>
       /\ st[o].players["s2"].answeredAtMs = <<Epoch + 5000>>
       /\ st[o].players["s2"].score = 875
       /\ st[o].players["s3"].selectedOptionId = <<"b">>
       /\ st[o].players["s3"].score = 0

----------------------------------------------------------------------------
(* The rate limiter (SpecRate) *)

\* the timestamps at which the address has sent events
StampsOf(ip) == {admissions[ip][i].at : i \in DOMAIN admissions[ip]}

(* C13 as stated: for one source and any 10-second window (here: every      *)
(* window that starts at one of the source's events), exactly the first 30  *)
(* events falling in the window are admitted and the later ones rejected.   *)
C13_First30PerWindow ==
    \A ip \in DOMAIN admissions :
       \A w \in StampsOf(ip) :
          \A j \in DOMAIN admissions[ip] :
             LET InWindow(k) == /\ admissions[ip][k].at >= w
                                /\ admissions[ip][k].at < w + RATE_LIMIT_WINDOW_MS
             IN  InWindow(j) =>
                    (admissions[ip][j].ok <=>
                        Cardinality({k \in 1..j : InWindow(k)}) <= RATE_LIMIT_MAX)

(* C13 amended: an event of a source at time t is admitted iff at most 30   *)
(* events of that source, admitted or rejected and itself included, have a  *)
(* timestamp in [t - 10 s, t]; and the first event of a source, or one that *)
(* comes more than 10 seconds after the source's previous event, is         *)
(* admitted.                                                                *)
C13_AdmittedIffFewRecent ==
    \A ip \in DOMAIN admissions :
       \A j \in DOMAIN admissions[ip] :
          LET e == admissions[ip][j]
              recent == {k \in 1..j : admissions[ip][k].at >= e.at - RATE_LIMIT_WINDOW_MS}
          IN  /\ e.ok <=> Cardinality(recent) <= RATE_LIMIT_MAX
              /\ (j = 1 \/ e.at - admissions[ip][Max(1, j - 1)].at > RATE_LIMIT_WINDOW_MS)
                 => e.ok

\* a source over its limit was rejected and, after more than 10 s of silence, admitted
C13_Witness ==
    \E ip \in DOMAIN admissions :
       LET n == Len(admissions[ip])
       IN  /\ n > RATE_LIMIT_MAX
           /\ ~admissions[ip][n - 1].ok
           /\ admissions[ip][n].ok
           /\ admissions[ip][n].at - admissions[ip][n - 1].at > RATE_LIMIT_WINDOW_MS

(* C14: each admission check of a source drops its recorded timestamps      *)
(* older than 10 seconds, records the current timestamp and admits the      *)
(* event iff at most 30 timestamps are then recorded; a rejected event      *)
(* changes no session, player, registry or timer state and emits no         *)
(* broadcast, at most the error acknowledgment to a socket of the source.   *)
C14_AdmissionCheck ==
    [][ \A ip \in DOMAIN admissions' :
          (ip \notin DOMAIN admissions \/ admissions'[ip] # admissions[ip]) =>
             LET old == IF ip \in DOMAIN rateLimitMap THEN rateLimitMap[ip] ELSE <<>>
                 kept == SelectSeq(old, LAMBDA ts : ts >= now - RATE_LIMIT_WINDOW_MS)
                 e == admissions'[ip][Len(admissions'[ip])]
             IN  /\ rateLimitMap'[ip] = Append(kept, now)
                 /\ e.at = now
                 /\ e.ok <=> Len(rateLimitMap'[ip]) <= RATE_LIMIT_MAX
                 /\ ~e.ok =>
                       /\ UNCHANGED <<st, games, timers, crashed, reveals, incs, noops>>
                       /\ Len(out') <= 1
                       /\ \A k \in DOMAIN out' :
                             /\ out'[k].ev = "ack:rateLimit"
                             /\ address(out'[k].to) = ip ]_vars

\* the join of s2 into the open lobby A was rejected: error acknowledgment, no player
C14_Witness ==
    /\ out = <<[ev |-> "ack:rateLimit", to |-> "s2", obj |-> 0, index |-> -1,
             payload |-> <<>>]>>
    /\ gamesHas(games, "A")
    /\ \E o \in Objs : /\ st[o].currentIndex = -1
                       /\ "s2" \notin DOMAIN st[o].players
    /\ EventsOf("ip1") > RATE_LIMIT_MAX
    /\ ~admissions["ip1"][EventsOf("ip1")].ok

----------------------------------------------------------------------------
(* The playthrough of a session (Spec) *)

\* the emits of the step that carry event ev for session o
EmitsNext(ev, o) == {k \in 1..Len(out') : out'[k].ev = ev /\ out'[k].obj = o}

\* the questions of session o are those of the uploaded quiz, each once, in some order
IsPermutationOfInput(o) ==
    \E payload \in Payloads :
       /\ validateQuizPayload(payload)
       /\ Len(st'[o].questions) = Len(payload.questions)
       /\ \E f \in [1..Len(payload.questions) -> 1..Len(payload.questions)] :
             /\ \A i, j \in DOMAIN f : f[i] = f[j] => i = j
             /\ \A i \in DOMAIN f :
                   /\ st'[o].questions[i].id = payload.questions[f[i]].id
                   /\ st'[o].questions[i].correctOptionIds
                         = payload.questions[f[i]].correctOptionIds

(* C15: the question sequence of every session is a permutation of the      *)
(* uploaded questions and never changes; the index only ever moves from i   *)
(* to i+1, and that step broadcasts question-shown once, with index i+1,    *)
(* if i+1 < N and game-over once if i+1 = N; nothing else broadcasts        *)
(* either.  So when game-over is broadcast each of the N questions has been *)
(* shown exactly once, in the order 0..N-1, whatever the interleaving.      *)
C15_EachShownOnceInOrder ==
    [][ /\ \A o \in 1..Len(st') : IsPermutationOfInput(o)
        /\ \A o \in Objs :
              LET N == Len(st[o].questions)
                  i == st[o].currentIndex
                  advanced == st'[o].currentIndex = i + 1
              IN  /\ st'[o].questions = st[o].questions
                  /\ st'[o].currentIndex = i \/ advanced
                  /\ i <= N
                  /\ Cardinality(EmitsNext("question:show", o))
                        = IF advanced /\ i + 1 < N THEN 1 ELSE 0
                  /\ \A k \in EmitsNext("question:show", o) : out'[k].index = i + 1
                  /\ Cardinality(EmitsNext("game:over", o))
                        = IF advanced /\ i + 1 = N THEN 1 ELSE 0 ]_vars

\* game-over of a session that plays q2 before q1, after both rounds were revealed
C15_Witness ==
    \E o \in Objs :
       /\ Emitted("game:over", o)
       /\ st[o].currentIndex = 2
       /\ st[o].questions[1].id = "q2" /\ st[o].questions[2].id = "q1"
       /\ reveals[o][0] = 1 /\ reveals[o][1] = 1

LiveNext(o) == \E k \in 1..Len(games') : games'[k].ref = o

(* C16: on a server whose only session it is, a started session of 2        *)
(* questions and 0 players stays in the registry through the first advance  *)
(* (index 0 to 1), which broadcasts no game-over, and through every other   *)
(* step while its host is connected; the second advance (index 1 to 2)      *)
(* removes it and broadcasts game-over exactly once, with no player on the  *)
(* leaderboard.                                                             *)
C16_CompletedAfterSecondAdvance ==
    [][ \A o \in Objs :
          (/\ Len(st') = 1
           /\ Live(o) /\ st[o].started
           /\ Len(st[o].questions) = 2
           /\ DOMAIN st[o].players = {})
          => LET i == st[o].currentIndex
                 j == st'[o].currentIndex
             IN  /\ (i = 0 /\ j = 1) =>
                       /\ LiveNext(o)
                       /\ EmitsNext("game:over", o) = {}
                 /\ (i = 1 /\ j = 2) =>
                       /\ ~LiveNext(o)
                       /\ Cardinality(EmitsNext("game:over", o)) = 1
                       /\ DOMAIN st'[o].players = {}
                 /\ (j = i /\ st[o].hostSocketId \in connected') => LiveNext(o) ]_vars

\* created, started and advanced twice with nobody in it and no round revealed: gone
C16_Witness ==
    \E o \in Objs :
       /\ st[o].started /\ DOMAIN st[o].players = {}
       /\ Len(st[o].questions) = 2 /\ st[o].currentIndex = 2
       /\ reveals[o][0] = 0 /\ reveals[o][1] = 0
       /\ ~Live(o) /\ Len(st) = 1
       /\ Cardinality({k \in 1..Len(out) : out[k].ev = "game:over" /\ out[k].obj = o}) = 1
       /\ now = Epoch

----------------------------------------------------------------------------
(* The player ceiling (SpecCapacity) *)

PlayerCount(o) == Cardinality(DOMAIN st[o].players)
\* the step is a player:join of s for a registered session that has 100 players
JoinAtCeiling(s, gameId) ==
    /\ PlayerJoin(s, gameId)
    /\ gamesHas(games, gameId)
    /\ PlayerCount(gamesGet(games, gameId)) >= MAX_PLAYERS_PER_GAME

(* C17 as stated: no session ever has more than 100 players, and a join on  *)
(* a session that has 100 players is answered with the capacity error and  *)
(* changes no session, registry or timer state.                             *)
C17_CeilingCapacityError ==
    [][ /\ \A o \in 1..Len(st') :
              Cardinality(DOMAIN st'[o].players) <= MAX_PLAYERS_PER_GAME
        /\ \A s \in Sockets \cup Crowd, gameId \in GameIds :
              JoinAtCeiling(s, gameId) =>
                 /\ UNCHANGED <<st, games, timers>>
                 /\ Len(out') = 1 /\ out'[1].to = s
                 /\ out'[1].ev = "ack:full" ]_vars

(* C17 amended: no session ever has more than 100 players, and a join on a  *)
(* session that has 100 players changes no state and is answered with one   *)
(* error: the capacity error if the session has not started, the            *)
(* not-found-or-started error if it has.                                     *)
C17_CeilingRejects ==
    [][ /\ \A o \in 1..Len(st') :
              Cardinality(DOMAIN st'[o].players) <= MAX_PLAYERS_PER_GAME
        /\ \A s \in Sockets \cup Crowd, gameId \in GameIds :
              JoinAtCeiling(s, gameId) =>
                 /\ UNCHANGED <<st, games, timers>>
                 /\ Len(out') = 1 /\ out'[1].to = s
                 /\ out'[1].ev = IF st[gamesGet(games, gameId)].started
                                 THEN "ack:error" ELSE "ack:full" ]_vars

\* s3 asked to join the open lobby of 100 players and got the capacity error
C17_Witness ==
    \E o \in Objs :
       /\ Live(o) /\ ~st[o].started
       /\ PlayerCount(o) = MAX_PLAYERS_PER_GAME
       /\ "s3" \notin DOMAIN st[o].players
       /\ out = <<[ev |-> "ack:full", to |-> "s3", obj |-> o, index |-> -1,
             payload |-> <<>>]>>

----------------------------------------------------------------------------
(* Joining (Spec) *)

(* C18: a join is rejected, and the Player map of the session unchanged,    *)
(* whenever the target session does not exist, or has started, or has       *)
(* already shown a question (currentIndex >= 0 or a Round present); so no   *)
(* session gains a player after its first question-shown broadcast.         *)
C18_JoinOnlyInLobby ==
    [][ /\ \A s \in Sockets, gameId \in GameIds :
              (/\ PlayerJoin(s, gameId)
               /\ \/ ~gamesHas(games, gameId)
                  \/ LET S == st[gamesGet(games, gameId)]
                     IN  S.started \/ S.currentIndex >= 0 \/ S.round # <<>>)
              => /\ \A o \in Objs : st'[o].players = st[o].players
                 /\ \A k \in 1..Len(out') : out'[k].ev = "ack:error"
        /\ \A o \in Objs :
              st[o].currentIndex >= 0 =>
                 DOMAIN st'[o].players \subseteq DOMAIN st[o].players ]_vars

----------------------------------------------------------------------------
(* The session ceiling (SpecGames) *)

\* the step is a host:createGame the handler rejects
RejectedCreate(s, payload, gameId, shuffled) ==
    /\ HostCreateGame(s, payload, gameId, shuffled)
    /\ Len(games) >= MAX_GAMES \/ ~validateQuizPayload(payload)

(* C19: the registry never holds more than 100 sessions, and a createGame   *)
(* that is rejected, because the registry holds 100 sessions or because the *)
(* payload fails validation, is answered with an error and changes neither  *)
(* the registry nor any session.                                            *)
C19_CeilingAndRejectedCreate ==
    [][ /\ Len(games') <= MAX_GAMES
        /\ \A s \in Sockets, payload \in Payloads, gameId \in GameIds :
              \A shuffled \in shuffle(payload.questions) :
                 RejectedCreate(s, payload, gameId, shuffled) =>
                    /\ UNCHANGED <<games, st, timers>>
                    /\ Len(out') = 1 /\ out'[1].to = s
                    /\ out'[1].ev = IF Len(games) >= MAX_GAMES
                                    THEN "ack:tooMany" ELSE "ack:invalid" ]_vars

\* with 100 sessions registered, the valid quiz of s2 was turned down
C19_Witness ==
    /\ Len(games) = MAX_GAMES
    /\ Len(st) = MAX_GAMES
    /\ out = <<[ev |-> "ack:tooMany", to |-> "s2", obj |-> 0, index |-> -1,
             payload |-> <<>>]>>

----------------------------------------------------------------------------
(* Session ids (SpecRegistry) *)

(* C20: the id of a newly created session differs from the id of every      *)
(* session live at that moment, so a creation adds exactly one entry to the *)
(* registry and every session that was live stays live.                     *)
C20_CreatedIdIsFresh ==
    [][ Len(st') = Len(st) + 1 =>
           /\ ~gamesHas(games, st'[Len(st')].id)
           /\ Len(games') = Len(games) + 1
           /\ \A o \in Objs : Live(o) => LiveNext(o) ]_vars

----------------------------------------------------------------------------
(* Host commands (SpecHost) *)

\* the step is a host:startGame or host:next of s for a registered session s does not host
HostCommandOfOther(s, gameId) ==
    /\ OnHostStartGame(s, gameId) \/ OnHostNext(s, gameId)
    /\ gamesHas(games, gameId)
    /\ st[gamesGet(games, gameId)].hostSocketId # s

(* C21: a startGame or advance request of a socket that is not the recorded *)
(* host of the session leaves every session (started, currentIndex, Round,  *)
(* players), the registry and the timers unchanged and emits nothing; and   *)
(* the recorded host of a session never changes.                            *)
C21_OnlyHostCommands ==
    [][ /\ \A s \in Sockets, gameId \in GameIds :
              HostCommandOfOther(s, gameId) =>
                 /\ UNCHANGED <<st, games, timers, crashed>>
                 /\ out' = <<>>
        /\ \A o \in Objs : st'[o].hostSocketId = st[o].hostSocketId ]_vars

\* s3, not the host, sent a host command at an active round of the session of s1
C21_Witness ==
    /\ EventsOf("ip2") > 0
    /\ admissions["ip2"][EventsOf("ip2")].at = now
    /\ out = <<>>
    /\ \E o \in Objs :
          /\ Live(o) /\ st[o].hostSocketId = "s1"
          /\ st[o].started /\ HasRound(o) /\ st[o].currentIndex = 0
          /\ "s2" \in st[o].round[1].awaiting

----------------------------------------------------------------------------
(* Starting, scores, the awaiting set and the round timers (Spec) *)

(* C22: a startGame of the host on a session that has not started leaves it *)
(* started with currentIndex = 0 and a Round for question 0 that begins now *)
(* (or removed, if it has no question); a startGame on a started session    *)
(* changes nothing.                                                         *)
C22_StartEntersRoundZero ==
    [][ \A s \in Sockets, gameId \in GameIds :
          (HostStartGame(s, gameId) /\ gamesHas(games, gameId)) =>
             LET o == gamesGet(games, gameId)
             IN  /\ (st[o].hostSocketId = s /\ ~st[o].started) =>
                       /\ st'[o].started
                       /\ \/ /\ st'[o].currentIndex = 0
                             /\ LiveNext(o)
                             /\ st'[o].round # <<>>
                             /\ st'[o].round[1].startMs = now
                          \/ /\ Len(st[o].questions) = 0
                             /\ ~LiveNext(o)
                 /\ st[o].started =>
                       /\ UNCHANGED <<st, games, timers>>
                       /\ out' = <<>> ]_vars

(* C23: the score of a player of a live session is >= 0 and does not        *)
(* decrease in any step after which the player is still in the session.     *)
C23_ScoreNeverDecreases ==
    [][ \A o \in Objs :
          Live(o) =>
             \A s \in DOMAIN st[o].players \cap DOMAIN st'[o].players :
                /\ st[o].players[s].score >= 0
                /\ st'[o].players[s].score >= st[o].players[s].score ]_vars

(* Two servers that differ only in the answer keys of their quizzes and    *)
(* receive the same events.  As long as no question whose key differs has  *)
(* been revealed, the state of the second server is the state of the first *)
(* with the other key in its questions; a step of the first is compared    *)
(* with the same handler run on that state.                                *)
AnswerKeys == [QuestionIdInputs -> {{"a"}, {"b"}, {"a", "b"}}]
questionsWithKey(qs, key) ==
    [i \in 1..Len(qs) |-> [qs[i] EXCEPT !.correctOptionIds = key[qs[i].id]]]
stWithKey(states, key) ==
    [o \in 1..Len(states) |-> [states[o] EXCEPT !.questions = questionsWithKey(@, key)]]
Twin(W, key) == [W EXCEPT !.st = stWithKey(@, key)]
KeyDiffers(states, o, i, key) ==
    /\ i + 1 \in 1..Len(states[o].questions)
    /\ states[o].questions[i + 1].correctOptionIds # key[states[o].questions[i + 1].id]
NoneRevealed(key) ==
    \A o \in Objs : \A i \in DOMAIN reveals[o] :
       reveals[o][i] > 0 => ~KeyDiffers(st, o, i, key)
DifferingReveals(key) ==
    {k \in 1..Len(out') : /\ out'[k].ev = "question:reveal"
                          /\ KeyDiffers(st', out'[k].obj, out'[k].index, key)}
SameBroadcasts(V, key) ==
    IF DifferingReveals(key) = {}
    THEN /\ V.out = out'
         /\ V.st = stWithKey(st', key)
         /\ V.games = games'
         /\ V.timers = timers'
         /\ V.crashed = crashed'
    ELSE LET k == CHOOSE k \in DifferingReveals(key) : \A j \in DifferingReveals(key) : k <= j
         IN  /\ Len(V.out) >= k
             /\ V.out[k].ev = "question:reveal"
             /\ SubSeq(V.out, 1, k - 1) = SubSeq(out', 1, k - 1)
CarriesAnswers(e) == e.payload # <<>> /\ "correctOptionIds" \in DOMAIN e.payload[1]

(* C24: for every answer key, as long as no question whose key differs has  *)
(* been revealed, every handler emits with the other key the same sequence *)
(* of broadcasts, payloads included, up to (not including) the first       *)
(* reveal of a differing question, and leaves the same state but for the   *)
(* keys; and only question:reveal carries correctOptionIds.                *)
C24_ShowIndependentOfAnswers ==
    [][ /\ \A k \in 1..Len(out') : CarriesAnswers(out'[k]) => out'[k].ev = "question:reveal"
        /\ \A s \in Creators, payload \in Payloads, gameId \in NanoIds :
              \A shuffled \in shuffle(payload.questions) :
                 HostCreateGame(s, payload, gameId, shuffled)
                 => \A key \in AnswerKeys :
                       NoneRevealed(key)
                       => SameBroadcasts(
                             hostCreateGame(Twin(Cur, key), s,
                                            [payload EXCEPT !.questions = questionsWithKey(@, key)],
                                            gameId, questionsWithKey(shuffled, key)), key)
        /\ \A s \in Sockets, gameId \in GameIds :
              /\ HostStartGame(s, gameId)
                 => \A key \in AnswerKeys :
                       NoneRevealed(key)
                       => SameBroadcasts(hostStartGame(Twin(Cur, key), s, gameId), key)
              /\ HostNext(s, gameId)
                 => \A key \in AnswerKeys :
                       NoneRevealed(key)
                       => SameBroadcasts(hostNext(Twin(Cur, key), s, gameId), key)
              /\ PlayerJoin(s, gameId)
                 => \A key \in AnswerKeys :
                       NoneRevealed(key)
                       => SameBroadcasts(playerJoin(Twin(Cur, key), s, gameId), key)
              /\ \A questionId \in QuestionIdInputs, optionId \in OptionInputs :
                    PlayerAnswer(s, gameId, questionId, optionId)
                    => \A key \in AnswerKeys :
                          NoneRevealed(key)
                          => SameBroadcasts(
                                playerAnswer(Twin(Cur, key), s, gameId, questionId, optionId),
                                key)
        /\ \A s \in Sockets :
              Disconnect(s)
              => \A key \in AnswerKeys :
                    NoneRevealed(key)
                    => SameBroadcasts(disconnectFrom(Twin(Cur, key), s, 1), key)
        /\ \A t \in timers :
              TimerFire(t)
              => \A key \in AnswerKeys :
                    NoneRevealed(key)
                    => SameBroadcasts(endRound([Twin(Cur, key) EXCEPT !.timers = @ \ {t}], t.obj),
                                      key) ]_vars

\* a question has been shown, with answers in its key, and not yet revealed
C24_Witness ==
    \E o \in Objs : \E k \in 1..Len(out) :
       /\ out[k].ev = "question:show" /\ out[k].obj = o
       /\ out[k].payload # <<>>
       /\ out[k].payload[1].id = st[o].questions[out[k].index + 1].id
       /\ st[o].questions[out[k].index + 1].correctOptionIds # {}
       /\ \A i \in DOMAIN reveals[o] : reveals[o][i] = 0
       /\ DOMAIN st[o].players # {}

(* C25: whenever a live (here: started) session has a Round, its awaiting   *)
(* set is exactly the set of current players without an accepted answer for *)
(* this round.                                                              *)
C25_AwaitingIsUnanswered ==
    \A o \in Objs :
       (Live(o) /\ st[o].started /\ HasRound(o)) =>
          st[o].round[1].awaiting =
             {s \in DOMAIN st[o].players : st[o].players[s].answeredAtMs = <<>>}

(* C26: endRound never gets past its guard with currentIndex outside        *)
(* 0..N-1, whichever timer fires: the question it scores and reveals        *)
(* exists (otherwise reading q.correctOptionIds throws).                    *)
C26_ScoredQuestionExists ==
    [][ /\ \A t \in timers :
              (TimerFire(t) /\ HasRound(t.obj)) =>
                 /\ 0 <= st[t.obj].currentIndex
                 /\ st[t.obj].currentIndex < Len(st[t.obj].questions)
        /\ ~crashed' ]_vars

\* the pending timers that state object o scheduled
TimersOf(o) == {t \in timers : t.obj = o}

(* C27: each live session has at most one pending round timer, the one of   *)
(* its current Round, and a step that reveals round i on a timer does so    *)
(* with the timer scheduled for round i, at or after that round's deadline. *)
C27_OwnTimerOnly ==
    [][ /\ \A o \in Objs :
              Live(o) =>
                 /\ Cardinality(TimersOf(o)) <= 1
                 /\ \A t \in TimersOf(o) :
                       /\ HasRound(o)
                       /\ t.idx = st[o].currentIndex
                       /\ t.due = st[o].round[1].endMs
        /\ \A t \in timers :
              (TimerFire(t) /\ EmittedNext("question:reveal", t.obj)) =>
                 /\ t.idx = st[t.obj].currentIndex
                 /\ now >= st[t.obj].round[1].endMs ]_vars

----------------------------------------------------------------------------
(* Termination of a round (SpecLive) *)

(* C28: with fair timers, whenever a live session has a Round for index i,  *)
(* eventually the reveal for index i has been broadcast or the session is   *)
(* no longer in the registry, whatever the clients send or do not send.     *)
C28_RoundEventuallyEnds ==
    \A o \in 1..MaxCreates, i \in 0..1 :
       (o \in Objs /\ Live(o) /\ HasRound(o) /\ st[o].currentIndex = i)
       ~> (o \in Objs /\ (~Live(o) \/ reveals[o][i] > 0))

====
